---- MODULE Spec2Model ----
(***************************************************************************)
(* lunatic-rs: the tag generator (src/src/tag.rs) and the spawn entry      *)
(* points (src/src/process/mod.rs), as seen from one calling process.      *)
(*                                                                         *)
(* The calling process owns the static COUNTER.  It calls Tag::new,        *)
(* Tag::default, Tag::id and the four entry points spawn, spawn_config,    *)
(* spawn_link, spawn_link_config.  An entry point invokes the shape's      *)
(* contract (IntoProcess::spawn / IntoProcessLink::spawn_link) once and    *)
(* returns its result.  The contract's implementations and the host are    *)
(* not part of the two source files; they follow the written               *)
(* specification (sections 3, 4.2, 4.3, 6).                                *)
(***************************************************************************)
EXTENDS Integers, Sequences, FiniteSets, TLC

\* ------------------------------------------------------------------ bounds

\* Tag::new is called at most this many times in one behaviour.
MaxTags == 4
\* The host creates at most this many processes (after that it refuses).
MaxChildren == 4
\* Entry points are called at most this many times in one behaviour.
MaxCalls == 2

\* ------------------------------------------------------------------ state

VARIABLES
    COUNTER,    \* static mut COUNTER: i64 of the calling process
    panicked,   \* the calling process has panicked (overflow check)
    returned,   \* every Tag that Tag::new has returned, in call order
    lastGen,    \* the latest call that generated a tag: who, counter before/after
    reads,      \* the tag the process calls Tag::id on, and what id() returned
    call,       \* the entry-point call in progress, or the last one finished
    ncalls,     \* number of entry-point calls made
    children,   \* the processes the host created, by process id
    mailbox,    \* notifications delivered to the calling process and not yet
                \* taken (no order holds between different senders)
    sup,        \* a supervisor's children: specification, status, handle, tag
    requests,   \* requests sent to the server and not yet handled
    replies,    \* replies delivered to the calling process, oldest first
    outstanding, \* the requests the calling process still awaits a reply to
    got,        \* the replies the calling process took, each with its request
    ngen,       \* number of calls made that generate a tag (Tag::new,
                \* Tag::default, spawn_link, spawn_link_config)
    slept,      \* the latest sleep: the duration and the milliseconds asked
    peer,       \* another process: its own COUNTER and the tags it returned
    built,      \* the tags built with Tag::from, and what id() gave for them
    threads     \* logical threads of the calling process inside Tag::new

procVars == <<COUNTER, panicked, returned, lastGen, reads, call, ncalls,
              children, mailbox, ngen>>
supVars == <<sup>>
srvVars == <<requests, replies, outstanding, got>>
auxVars == <<slept, peer, built, threads>>

vars == <<procVars, supVars, srvVars, auxVars>>

\* ------------------------------------------------------- i64 (tag.rs:3, 15)

\* An i64 is four 16-bit limbs, most significant first, two's complement.
Base == 2^16
HalfBase == 2^15

\* The i64 of a small natural number.
I64(n) == <<0, 0, 0, n>>

I64Max == <<HalfBase - 1, Base - 1, Base - 1, Base - 1>>
I64Min == <<HalfBase, 0, 0, 0>>

\* x + 1 modulo 2^64.
WrappingInc(x) ==
    IF x[4] < Base - 1 THEN <<x[1], x[2], x[3], x[4] + 1>>
    ELSE IF x[3] < Base - 1 THEN <<x[1], x[2], x[3] + 1, 0>>
    ELSE IF x[2] < Base - 1 THEN <<x[1], x[2] + 1, 0, 0>>
    ELSE IF x[1] < Base - 1 THEN <<x[1] + 1, 0, 0, 0>>
    ELSE <<0, 0, 0, 0>>

\* The top limb read as a signed number.
TopLimb(x) == IF x[1] >= HalfBase THEN x[1] - Base ELSE x[1]

\* a < b as signed 64-bit integers.
Lt64(a, b) ==
    \/ TopLimb(a) < TopLimb(b)
    \/ /\ a[1] = b[1]
       /\ \/ a[2] < b[2]
          \/ /\ a[2] = b[2]
             /\ \/ a[3] < b[3]
                \/ a[3] = b[3] /\ a[4] < b[4]

\* `COUNTER += 1` on an i64: a build with overflow checks panics at
\* i64::MAX, a build without them wraps.
AddOneOutcomes(c) == IF c = I64Max THEN {"panic", "wrap"} ELSE {"ok"}

\* ---------------------------------------------------------------- tag.rs

NoTag == [none |-> TRUE]

\* pub struct Tag(i64)
Tag(id) == [id |-> id]

\* A faulty variant of Tag_from: keeps the low 32 bits of the id.
Tag_from_low_bits(id) == Tag(<<0, 0, id[3], id[4]>>)

Tag_from(id) == Tag(id)

\* A faulty variant of Tag_id: reads the process-wide counter instead of the field.
Tag_id_reads_counter(self) == COUNTER

Tag_id(self) == self.id

\* A faulty variant of Tag_new: the increment is missing.
Tag_new_without_increment(c) ==
    { [panic |-> FALSE, counter |-> c, tag |-> Tag(c)] }

\* A faulty variant of Tag_new: the tag is built before the increment.
Tag_new_returns_old_value(c) ==
    { [panic |-> FALSE, counter |-> WrappingInc(c), tag |-> Tag(c)] }

\* Tag::new from counter value c: the outcomes of `COUNTER += 1; Tag(COUNTER)`.
Tag_new(c) ==
    { [panic   |-> (o = "panic"),
       counter |-> IF o = "panic" THEN c ELSE WrappingInc(c),
       tag     |-> IF o = "panic" THEN NoTag ELSE Tag(WrappingInc(c))]
      : o \in AddOneOutcomes(c) }

\* A faulty variant of Tag_default: a derived Default, Tag(0), that leaves the counter.
Tag_default_derived(c) ==
    { [panic |-> FALSE, counter |-> c, tag |-> Tag(I64(0))] }

\* impl Default for Tag: Self::new()
Tag_default(c) == Tag_new(c)

\* ------------------------------------------------------- process/mod.rs

\* Option::None and Option::Some
None == [none |-> TRUE]
Some(x) == [some |-> x]

\* The values a caller passes in: a captured state with the handler that
\* takes it, and a configuration.
Inputs == { [capture |-> "c1", handler |-> "h1"],
            [capture |-> "c2", handler |-> "h2"] }
Configs == {"cfgA", "cfgB"}

\* One invocation of a shape's IntoProcess::spawn.
IntoProcess_spawn(module, config, capture, handler) ==
    [contract |-> "IntoProcess::spawn", module |-> module, config |-> config,
     tag |-> NoTag, capture |-> capture, handler |-> handler]

\* One invocation of a shape's IntoProcessLink::spawn_link.
IntoProcessLink_spawn_link(module, config, tag, capture, handler) ==
    [contract |-> "IntoProcessLink::spawn_link", module |-> module,
     config |-> config, tag |-> tag, capture |-> capture, handler |-> handler]

\* The entry points that spawn with a link.
LinkEntry(entry) == entry \in {"spawn_link", "spawn_link_config"}

\* What an entry point does when called with the counter at c: whether it
\* panics before reaching the contract, the counter it leaves, the tags it
\* generated, and the invocation of the contract it makes.
Outcome(panic, counter, generated, invocation) ==
    [panic |-> panic, counter |-> counter, generated |-> generated,
     invocation |-> invocation]

\* A faulty variant of spawn: takes a tag and dispatches to the linking contract.
spawn_with_link(c, capture, handler) ==
    { Outcome(FALSE, g.counter, <<g.tag>>,
              IntoProcessLink_spawn_link(None, None, g.tag, capture, handler))
      : g \in Tag_new(c) }

spawn(c, capture, handler) ==
    { Outcome(FALSE, c, <<>>, IntoProcess_spawn(None, None, capture, handler)) }

\* A faulty variant of spawn_config: the configuration is not handed on.
spawn_config_drops_config(c, config, capture, handler) ==
    { Outcome(FALSE, c, <<>>, IntoProcess_spawn(None, None, capture, handler)) }

\* A faulty variant of spawn_config: generates a tag it has no use for.
spawn_config_generates_tag(c, config, capture, handler) ==
    { Outcome(FALSE, g.counter, <<g.tag>>,
              IntoProcess_spawn(None, Some(config), capture, handler))
      : g \in Tag_new(c) }

spawn_config(c, config, capture, handler) ==
    { Outcome(FALSE, c, <<>>,
              IntoProcess_spawn(None, Some(config), capture, handler)) }

\* A faulty variant of spawn_link: every call links under the same tag.
spawn_link_constant_tag(c, capture, handler) ==
    { Outcome(FALSE, c, <<>>,
              IntoProcessLink_spawn_link(None, None, Tag_from(I64(0)), capture,
                                         handler)) }

\* A faulty variant of spawn_link: dispatches to the contract without a link.
spawn_link_without_link(c, capture, handler) ==
    { Outcome(FALSE, g.counter, <<g.tag>>,
              IntoProcess_spawn(None, None, capture, handler))
      : g \in Tag_new(c) }

\* A faulty variant of spawn_link: calls Tag::new twice and links under the second tag.
spawn_link_generates_twice(c, capture, handler) ==
    { Outcome(FALSE, h.counter, <<g.tag, h.tag>>,
              IntoProcessLink_spawn_link(None, None, h.tag, capture, handler))
      : g \in { x \in Tag_new(c) : ~x.panic },
        h \in { x \in Tag_new(WrappingInc(c)) : ~x.panic } }

spawn_link(c, capture, handler) ==
    { IF g.panic
        THEN Outcome(TRUE, g.counter, <<>>, None)
        ELSE Outcome(FALSE, g.counter, <<g.tag>>,
                     IntoProcessLink_spawn_link(None, None, g.tag, capture,
                                                handler))
      : g \in Tag_new(c) }

\* A faulty variant of spawn_link_config: links under the next counter value
\* without taking it from the counter.
spawn_link_config_peeks_tag(c, config, capture, handler) ==
    { Outcome(FALSE, c, <<>>,
              IntoProcessLink_spawn_link(None, Some(config),
                                         Tag_from(WrappingInc(c)), capture,
                                         handler)) }

spawn_link_config(c, config, capture, handler) ==
    { IF g.panic
        THEN Outcome(TRUE, g.counter, <<>>, None)
        ELSE Outcome(FALSE, g.counter, <<g.tag>>,
                     IntoProcessLink_spawn_link(None, Some(config), g.tag,
                                                capture, handler))
      : g \in Tag_new(c) }

\* A faulty variant of OnContractResult: a refused spawn is tried again.
OnContractResult_retries(result) == [ret |-> result, again |-> ~result.ok]

\* What an entry point does with the contract's result: the contract call is
\* the function's tail expression, so the result is returned as it is and
\* the contract is not invoked again.
OnContractResult(result) == [ret |-> result, again |-> FALSE]

\* Result<T, LunaticError>
Ok(handle) == [ok |-> TRUE, handle |-> handle]
Err(error) == [ok |-> FALSE, error |-> error]

\* ------------------------------------------------------------ initial state

\* No sleep yet, the other process fresh, nothing built, no thread in a call.
NoPeer == [COUNTER |-> I64(0), returned |-> <<>>]
NoThreads == [t \in {1, 2} |-> [pc |-> "out", reg |-> I64(0), got |-> <<>>]]

AuxInit ==
    /\ slept = None
    /\ peer = NoPeer
    /\ built = {}
    /\ threads = NoThreads

NoCall ==
    [stage |-> "idle", entry |-> "none", given |-> None, invocation |-> None,
     ninv |-> 0, pid |-> 0, result |-> None, ret |-> None]

Init ==
    /\ COUNTER = I64(0)
    /\ panicked = FALSE
    /\ returned = <<>>
    /\ lastGen = None
    /\ reads = None
    /\ call = NoCall
    /\ ncalls = 0
    /\ children = <<>>
    /\ mailbox = {}
    /\ sup = <<>>
    /\ requests = {}
    /\ replies = <<>>
    /\ outstanding = {}
    /\ got = {}
    /\ ngen = 0
    /\ AuxInit

Range(seq) == { seq[i] : i \in 1..Len(seq) }

\* The calling process is between two calls of its own code.
Idle == ~panicked /\ call.stage = "idle"

\* ------------------------------------------------- the tag generator's calls

\* A call of a tag constructor whose outcomes are outs.
Generate(op, outs) ==
    /\ Idle
    /\ Len(returned) < MaxTags
    /\ \E g \in outs :
         /\ panicked' = g.panic
         /\ COUNTER' = g.counter
         /\ returned' = IF g.panic THEN returned ELSE Append(returned, g.tag)
         /\ lastGen' = IF g.panic THEN lastGen
                       ELSE [op |-> op, before |-> COUNTER, tag |-> g.tag,
                             after |-> g.counter]
    /\ ngen' = ngen + 1
    /\ UNCHANGED <<reads, call, ncalls, children, mailbox>>
    /\ UNCHANGED <<supVars, srvVars, auxVars>>

NewTag == Generate("new", Tag_new(COUNTER))

DefaultTag == Generate("default", Tag_default(COUNTER))

\* tag.id() on a tag the process holds: the first call picks the tag, the
\* later ones are calls on that same Tag value.  `spaced` records that a
\* later call was made with the counter moved on since the first call.
ReadId ==
    /\ Idle
    /\ \E t \in (IF reads = None THEN Range(returned) ELSE {reads.tag}) :
         /\ UNCHANGED COUNTER
         /\ reads' = [tag |-> t,
                      firstAt |-> IF reads = None THEN COUNTER
                                  ELSE reads.firstAt,
                      values |-> (IF reads = None THEN {} ELSE reads.values)
                                 \cup {Tag_id(t)},
                      counterKept |-> /\ (reads = None \/ reads.counterKept)
                                      /\ COUNTER' = COUNTER,
                      spaced |-> /\ reads # None
                                 /\ (reads.spaced \/ reads.firstAt # COUNTER)]
    /\ UNCHANGED <<panicked, returned, lastGen, call, ncalls, children,
                   mailbox>>
    /\ UNCHANGED <<ngen, supVars, srvVars, auxVars>>

\* ------------------------------------------------------- the entry points

\* A call of entry point `entry` with the arguments `given`.
Enter(entry, given, outs) ==
    /\ Idle
    /\ ncalls < MaxCalls
    /\ \E o \in outs :
         /\ Len(returned) + Len(o.generated) <= MaxTags
         /\ panicked' = o.panic
         /\ COUNTER' = o.counter
         /\ returned' = returned \o o.generated
         /\ lastGen' = IF o.generated = <<>> THEN lastGen
                       ELSE [op |-> entry, before |-> COUNTER,
                             tag |-> o.generated[1], after |-> o.counter]
         /\ call' = IF o.panic THEN call
                    ELSE [stage |-> "contract", entry |-> entry,
                          given |-> given, invocation |-> o.invocation,
                          ninv |-> 1, pid |-> 0, result |-> None, ret |-> None]
    /\ ncalls' = ncalls + 1
    /\ ngen' = ngen + (IF LinkEntry(entry) THEN 1 ELSE 0)
    /\ UNCHANGED <<reads, children, mailbox>>
    /\ UNCHANGED <<supVars, srvVars, auxVars>>

Given(config, capture, handler) ==
    [config |-> config, capture |-> capture, handler |-> handler]

Spawn ==
    \E in \in Inputs :
        Enter("spawn", Given(None, in.capture, in.handler),
              spawn(COUNTER, in.capture, in.handler))

SpawnConfig ==
    \E config \in Configs, in \in Inputs :
        Enter("spawn_config", Given(Some(config), in.capture, in.handler),
              spawn_config(COUNTER, config, in.capture, in.handler))

SpawnLink ==
    \E in \in Inputs :
        Enter("spawn_link", Given(None, in.capture, in.handler),
              spawn_link(COUNTER, in.capture, in.handler))

SpawnLinkConfig ==
    \E config \in Configs, in \in Inputs :
        Enter("spawn_link_config", Given(Some(config), in.capture, in.handler),
              spawn_link_config(COUNTER, config, in.capture, in.handler))

\* The entry point receives the contract's result.
Return ==
    /\ ~panicked
    /\ call.stage = "returning"
    /\ LET r == OnContractResult(call.result) IN
         call' = IF r.again
                   THEN [call EXCEPT !.stage = "contract", !.ninv = @ + 1,
                                     !.result = None]
                   ELSE [call EXCEPT !.stage = "idle", !.ret = r.ret]
    /\ UNCHANGED <<COUNTER, panicked, returned, lastGen, reads, ncalls,
                   children, mailbox>>
    /\ UNCHANGED <<ngen, supVars, srvVars, auxVars>>

\* ------------------------------------------- the contract and the host
\* (sections 4.2, 4.3 and 6 of the specification: create_process, link,
\* failure notifications; the shapes' implementations are not in mod.rs)

Linked(invocation) == invocation.contract = "IntoProcessLink::spawn_link"

\* The process create_process makes for an invocation.  A process spawned
\* with a link is not runnable until the link is established.
\* `byLinkEntry` remembers whether spawn_link / spawn_link_config made it.
NewProcess(byLinkEntry, invocation) ==
    [state       |-> IF Linked(invocation) THEN "created" ELSE "running",
     byLinkEntry |-> byLinkEntry,
     link        |-> NoTag]

\* The process once link(child, caller, tag) is done: linked and runnable.
LinkedProcess(child, tag) == [child EXCEPT !.link = tag, !.state = "running"]

\* (Tag, ProcessHandle, ExitReason)
Notification(tag, pid, reason) == [tag |-> tag, pid |-> pid, reason |-> reason]

\* The notifications the termination of process pid sends to the process
\* linked to it.
Notify(pid, reason) ==
    IF children[pid].link = NoTag THEN {}
    ELSE {Notification(children[pid].link, pid, reason)}

\* create_process refuses (resource exhaustion, bad module, bad config).
HostRefuse ==
    /\ call.stage = "contract"
    /\ call' = [call EXCEPT !.stage = "returning",
                            !.result = Err("SpawnFailed")]
    /\ UNCHANGED <<COUNTER, panicked, returned, lastGen, reads, ncalls,
                   children, mailbox>>
    /\ UNCHANGED <<ngen, supVars, srvVars, auxVars>>

\* create_process succeeds.
HostCreate ==
    /\ call.stage = "contract"
    /\ Len(children) < MaxChildren
    /\ LET pid == Len(children) + 1 IN
         /\ children' = Append(children, NewProcess(LinkEntry(call.entry), call.invocation))
         /\ call' = IF Linked(call.invocation)
                      THEN [call EXCEPT !.stage = "linking", !.pid = pid]
                      ELSE [call EXCEPT !.stage = "returning", !.pid = pid,
                                        !.result = Ok(pid)]
    /\ UNCHANGED <<COUNTER, panicked, returned, lastGen, reads, ncalls,
                   mailbox>>
    /\ UNCHANGED <<ngen, supVars, srvVars, auxVars>>

\* link(child, caller, tag), then the child is released to run.
HostLink ==
    /\ call.stage = "linking"
    /\ children' = [children EXCEPT
                      ![call.pid] = LinkedProcess(@, call.invocation.tag)]
    /\ call' = [call EXCEPT !.stage = "returning", !.result = Ok(call.pid)]
    /\ UNCHANGED <<COUNTER, panicked, returned, lastGen, reads, ncalls,
                   mailbox>>
    /\ UNCHANGED <<ngen, supVars, srvVars, auxVars>>

\* A running process traps (possibly on its first instruction).
ChildTrap ==
    \E pid \in 1..Len(children) :
        /\ children[pid].state = "running"
        /\ children' = [children EXCEPT ![pid].state = "trapped"]
        /\ mailbox' = mailbox \cup Notify(pid, "Trapped")
        /\ UNCHANGED <<COUNTER, panicked, returned, lastGen, reads, call,
                       ncalls>>
        /\ UNCHANGED <<ngen, supVars, srvVars, auxVars>>

\* A running process returns from its handler.
ChildExit ==
    \E pid \in 1..Len(children) :
        /\ children[pid].state = "running"
        /\ children' = [children EXCEPT ![pid].state = "exited"]
        /\ mailbox' = mailbox \cup Notify(pid, "Normal")
        /\ UNCHANGED <<COUNTER, panicked, returned, lastGen, reads, call,
                       ncalls>>
        /\ UNCHANGED <<ngen, supVars, srvVars, auxVars>>

\* ---------------------------------------------------------- specification

Next ==
    \/ NewTag
    \/ DefaultTag
    \/ ReadId
    \/ Spawn
    \/ SpawnConfig
    \/ SpawnLink
    \/ SpawnLinkConfig
    \/ Return
    \/ HostRefuse
    \/ HostCreate
    \/ HostLink
    \/ ChildTrap
    \/ ChildExit

Spec == Init /\ [][Next]_vars

\* ------------------------------------------------- properties: tag generator

\* C1: within one process the tags Tag::new has returned are pairwise
\* distinct and strictly increasing in call order.
C1_TagsDistinctAndIncreasing ==
    \A i, j \in 1..Len(returned) :
        i < j => /\ returned[i] # returned[j]
                 /\ Lt64(Tag_id(returned[i]), Tag_id(returned[j]))

\* Three calls to Tag::new have returned.
C1_Witness == Len(returned) >= 3

\* C2: the counter starts at 0, every call to Tag::new adds exactly 1 to it
\* and returns the new value: the k-th call of a fresh process returns id k.
C2_KthCallReturnsK ==
    /\ COUNTER = I64(Len(returned))
    /\ \A k \in 1..Len(returned) : Tag_id(returned[k]) = I64(k)
    /\ lastGen # None =>
         /\ lastGen.after = WrappingInc(lastGen.before)
         /\ lastGen.tag = Tag(lastGen.after)

\* The first four calls have returned the ids 1, 2, 3, 4.
C2_Witness ==
    /\ Len(returned) = 4
    /\ <<Tag_id(returned[1]), Tag_id(returned[2]), Tag_id(returned[3]),
         Tag_id(returned[4])>> = <<I64(1), I64(2), I64(3), I64(4)>>

\* C3: Tag::default() returns the tag Tag::new() would have returned from the
\* same counter state and consumes exactly one counter increment.
C3_DefaultIsNew ==
    (lastGen # None /\ lastGen.op = "default") =>
        /\ [panic |-> FALSE, counter |-> lastGen.after, tag |-> lastGen.tag]
               \in Tag_new(lastGen.before)
        /\ lastGen.after = WrappingInc(lastGen.before)
        /\ COUNTER = lastGen.after

\* Tag::default() was called after the counter had left 0.
C3_Witness ==
    /\ lastGen # None
    /\ lastGen.op = "default"
    /\ lastGen.before # I64(0)

\* C4: id() on the same Tag value returns the same integer every time,
\* whatever Tag::new / Tag::default / spawn_link calls happen in between,
\* and id() leaves the counter unchanged.
C4_IdIsStable ==
    reads # None =>
        /\ reads.values = {reads.tag.id}
        /\ reads.counterKept

\* id() was called again on a tag after the counter had moved on.
C4_Witness == reads # None /\ reads.spaced

\* ---------------------------------------------------- properties: spawning

LinkedPids == { p \in 1..Len(children) : children[p].link # NoTag }

\* C5: a call of spawn_link or spawn_link_config generates exactly one fresh
\* tag (one counter increment) and passes that tag to
\* IntoProcessLink::spawn_link; the link tags of two children are distinct,
\* so the tag of a notification names exactly one child.
C5_OneFreshTagPerLinkedSpawn ==
    /\ LinkEntry(call.entry) =>
         /\ call.invocation.contract = "IntoProcessLink::spawn_link"
         /\ call.invocation.tag \in Range(returned)
         /\ call.stage # "idle" =>
              /\ lastGen.op = call.entry
              /\ lastGen.tag = call.invocation.tag
              /\ lastGen.after = WrappingInc(lastGen.before)
              /\ COUNTER = lastGen.after
              /\ returned[Len(returned)] = call.invocation.tag
    /\ \A p, q \in LinkedPids : p # q => children[p].link # children[q].link
    /\ \A n \in mailbox :
         { p \in 1..Len(children) : children[p].link = n.tag } = {n.pid}

\* Two children are linked and one of them has notified the caller.
C5_Witness ==
    /\ Cardinality(LinkedPids) = 2
    /\ mailbox # {}

\* C6: a process spawned through spawn_link / spawn_link_config has its link
\* established before it runs: it is never running or terminated without
\* the link, and if it has trapped the caller has the notification.
C6_LinkBeforeRun ==
    \A p \in 1..Len(children) :
        (children[p].byLinkEntry /\ children[p].state # "created") =>
            /\ children[p].link # NoTag
            /\ children[p].state = "trapped" =>
                 Notification(children[p].link, p, "Trapped") \in mailbox

\* The child trapped before spawn_link had returned to its caller.
C6_Witness ==
    /\ LinkEntry(call.entry)
    /\ call.stage = "returning"
    /\ call.result = Ok(call.pid)
    /\ children[call.pid].state = "trapped"
    /\ Notification(call.invocation.tag, call.pid, "Trapped") \in mailbox

\* C7: spawn and spawn_link invoke the contract with no module and no config,
\* spawn_config and spawn_link_config with the caller's config and no
\* module; capture and handler are passed through unchanged.
C7_EntryPointDefaults ==
    call.entry # "none" =>
        /\ call.invocation.module = None
        /\ call.invocation.config =
               (IF call.entry \in {"spawn_config", "spawn_link_config"}
                  THEN call.given.config ELSE None)
        /\ call.entry \in {"spawn_config", "spawn_link_config"} =>
               call.invocation.config \in { Some(c) : c \in Configs }
        /\ call.invocation.capture = call.given.capture
        /\ call.invocation.handler = call.given.handler
        /\ call.invocation.contract =
               (IF LinkEntry(call.entry) THEN "IntoProcessLink::spawn_link"
                ELSE "IntoProcess::spawn")

\* spawn_link_config was called with cfgB, c2 and h2 and has returned.
C7_Witness ==
    /\ call.entry = "spawn_link_config"
    /\ call.given = Given(Some("cfgB"), "c2", "h2")
    /\ call.stage = "idle"

\* C8: an entry point invokes the contract exactly once and returns exactly
\* the contract's result; when the host refuses, that is an error result.
C8_FailureReturnedOnce ==
    call.entry # "none" =>
        /\ call.ninv = 1
        /\ call.stage = "idle" =>
             /\ call.ret = call.result
             /\ call.result = Err("SpawnFailed") => ~call.ret.ok
             /\ call.result # Err("SpawnFailed") => call.ret = Ok(call.pid)

\* The host refused and the entry point has returned the error.
C8_Witness ==
    /\ call.stage = "idle"
    /\ call.entry # "none"
    /\ call.ret = Err("SpawnFailed")

\* ------------------------------------------------------------- supervisor
\* (section 4.3 of the specification; supervisor.rs is not in src/.  The
\* calling process is the supervisor: it holds child specifications, each
\* child spawned through IntoProcessLink::spawn_link under a tag of its own.)

\* The ordered child specifications: what a plain spawn would take.
ChildSpecs == << [capture |-> "c1", handler |-> "h1"],
                 [capture |-> "c2", handler |-> "h2"] >>

Slots == 1..Len(ChildSpecs)

\* The state after the supervisor is constructed: every child spawned and
\* linked under a fresh tag, in order, and running.
InitSup ==
    /\ COUNTER = I64(Len(ChildSpecs))
    /\ panicked = FALSE
    /\ returned = [i \in Slots |-> Tag(I64(i))]
    /\ lastGen = None
    /\ reads = None
    /\ call = NoCall
    /\ ncalls = 0
    /\ children = [i \in Slots |->
                     LinkedProcess(NewProcess(FALSE,
                         IntoProcessLink_spawn_link(None, None, Tag(I64(i)),
                             ChildSpecs[i].capture, ChildSpecs[i].handler)),
                       Tag(I64(i)))]
    /\ mailbox = {}
    /\ sup = [i \in Slots |-> [spec |-> ChildSpecs[i], status |-> "Running",
                               pid |-> i, tag |-> Tag(I64(i))]]
    /\ requests = {}
    /\ replies = <<>>
    /\ outstanding = {}
    /\ got = {}
    /\ ngen = Len(ChildSpecs)
    /\ AuxInit

\* A faulty variant of RestartOn: every termination is answered with a restart.
RestartOn_any_exit(reason) == TRUE

\* The restart policy: Trapped is the sole restart trigger.
RestartOn(reason) == reason = "Trapped"

\* The slot whose current handle a notification is about.
SlotOf(n) == { i \in Slots : sup[i].pid = n.pid /\ sup[i].tag = n.tag }

\* The tag to link the restarted child under: the same one, or a fresh one.
RelinkTags(i) ==
    { [panic |-> FALSE, counter |-> COUNTER, tag |-> sup[i].tag,
       generated |-> <<>>] }
    \cup
    { [panic |-> g.panic, counter |-> g.counter, tag |-> g.tag,
       generated |-> IF g.panic THEN <<>> ELSE <<g.tag>>]
      : g \in IF Len(returned) < MaxTags THEN Tag_new(COUNTER) ELSE {} }

\* The supervisor takes the notification that a child trapped and
\* re-executes the spawn contract for the child's original specification.
SupRestart ==
    /\ Idle
    /\ \E n \in mailbox : \E i \in SlotOf(n) :
         /\ sup[i].status = "Running"
         /\ RestartOn(n.reason)
         /\ mailbox' = mailbox \ {n}
         /\ \E t \in RelinkTags(i) :
              /\ panicked' = t.panic
              /\ COUNTER' = t.counter
              /\ returned' = returned \o t.generated
              /\ lastGen' = IF t.generated = <<>> THEN lastGen
                            ELSE [op |-> "Supervisor", before |-> COUNTER,
                                  tag |-> t.tag, after |-> t.counter]
              /\ sup' = IF t.panic THEN sup
                        ELSE [sup EXCEPT ![i].status = "Restarting"]
              /\ call' = IF t.panic THEN call
                         ELSE [stage |-> "contract", entry |-> "Supervisor",
                               given |-> [slot |-> i],
                               invocation |->
                                   IntoProcessLink_spawn_link(None, None,
                                       t.tag, sup[i].spec.capture,
                                       sup[i].spec.handler),
                               ninv |-> 1, pid |-> 0, result |-> None,
                               ret |-> None]
              /\ ngen' = ngen + (IF t.tag = sup[i].tag THEN 0 ELSE 1)
    /\ UNCHANGED <<reads, ncalls, children, srvVars, auxVars>>

\* The supervisor takes the notification of an exit it does not restart.
SupStop ==
    /\ Idle
    /\ \E n \in mailbox : \E i \in SlotOf(n) :
         /\ sup[i].status = "Running"
         /\ ~RestartOn(n.reason)
         /\ mailbox' = mailbox \ {n}
         /\ sup' = [sup EXCEPT ![i].status = "Stopped"]
    /\ UNCHANGED <<COUNTER, panicked, returned, lastGen, reads, call, ncalls,
                   children, ngen, srvVars, auxVars>>

\* The contract returns to the supervisor: the new handle replaces the old.
SupReturn ==
    /\ ~panicked
    /\ call.stage = "returning"
    /\ call.entry = "Supervisor"
    /\ call' = [call EXCEPT !.stage = "idle", !.ret = call.result]
    /\ sup' = IF call.result.ok
                THEN [sup EXCEPT ![call.given.slot] =
                        [@ EXCEPT !.status = "Running", !.pid = call.pid,
                                  !.tag = call.invocation.tag]]
                ELSE sup
    /\ UNCHANGED <<COUNTER, panicked, returned, lastGen, reads, ncalls,
                   children, mailbox, ngen, srvVars, auxVars>>

NextSup ==
    \/ SupRestart
    \/ SupStop
    \/ SupReturn
    \/ HostRefuse
    \/ HostCreate
    \/ HostLink
    \/ ChildTrap
    \/ ChildExit

SpecSup == InitSup /\ [][NextSup]_vars

\* What one step may do to the supervisor's child i.
ChildStep(i) ==
    \/ sup'[i] = sup[i]
    \/ /\ sup[i].status = "Running"
       /\ sup'[i] = [sup[i] EXCEPT !.status = "Restarting"]
       /\ children[sup[i].pid].state = "trapped"
    \/ /\ sup[i].status = "Restarting"
       /\ sup'[i].status = "Running"
       /\ sup'[i].spec = sup[i].spec
       /\ sup'[i].pid = Len(children)
       /\ sup'[i].pid \notin { sup[j].pid : j \in Slots }
       /\ children[sup'[i].pid].state \in {"running", "trapped", "exited"}
       /\ children[sup'[i].pid].link = sup'[i].tag
       /\ call.invocation.capture = sup[i].spec.capture
       /\ call.invocation.handler = sup[i].spec.handler
    \/ /\ sup[i].status = "Running"
       /\ sup'[i] = [sup[i] EXCEPT !.status = "Stopped"]
       /\ children[sup[i].pid].state = "exited"

\* C9: a supervised child is restarted only on a trap, through Restarting,
\* with a fresh handle spawned from its original specification; a child
\* that exited normally goes to Stopped and is never restarted.
C9_RestartOnlyOnTrap ==
    [][ \A i \in Slots :
          /\ ChildStep(i)
          /\ sup[i].status = "Stopped" => sup'[i] = sup[i] ]_vars

\* One child trapped and runs again under a fresh handle, the other exited
\* normally and is stopped, its handle kept.
C9_Witness ==
    /\ sup # <<>>
    /\ \E i, j \in Slots :
         /\ sup[i].status = "Running"
         /\ sup[i].pid > Len(ChildSpecs)
         /\ sup[j].status = "Stopped"
         /\ sup[j].pid = j
         /\ children[j].state = "exited"

\* ----------------------------------------------------- request / response
\* (section 4.4 of the specification; gen_server.rs and server.rs are not in
\* src/.  The calling process sends requests, each carrying a fresh Tag,
\* and awaits the reply bearing that tag.)

Payloads == {"p1", "p2"}

Request(tag, payload) == [tag |-> tag, payload |-> payload]

\* The server's reply to a request: it carries the request's tag.
Reply(request) == [tag |-> request.tag, body |-> <<"re", request.payload>>]

RemoveAt(seq, i) == SubSeq(seq, 1, i - 1) \o SubSeq(seq, i + 1, Len(seq))

\* A faulty variant of FirstTagged: the filter is ignored, the oldest message is taken.
FirstTagged_takes_oldest(box, tag) == 1

\* receive(filter_by_tag): the place of the oldest message bearing the tag;
\* the other messages stay buffered.
FirstTagged(box, tag) ==
    CHOOSE i \in 1..Len(box) :
        /\ box[i].tag = tag
        /\ \A j \in 1..(i - 1) : box[j].tag # tag

\* The calling process sends a request under a fresh tag.
SendRequest ==
    /\ Idle
    /\ Len(returned) < MaxTags
    /\ \E payload \in Payloads : \E g \in Tag_new(COUNTER) :
         /\ panicked' = g.panic
         /\ COUNTER' = g.counter
         /\ returned' = IF g.panic THEN returned ELSE Append(returned, g.tag)
         /\ lastGen' = IF g.panic THEN lastGen
                       ELSE [op |-> "request", before |-> COUNTER,
                             tag |-> g.tag, after |-> g.counter]
         /\ requests' = IF g.panic THEN requests
                        ELSE requests \cup {Request(g.tag, payload)}
         /\ outstanding' = IF g.panic THEN outstanding
                           ELSE outstanding \cup {Request(g.tag, payload)}
    /\ ngen' = ngen + 1
    /\ UNCHANGED <<reads, call, ncalls, children, mailbox, supVars, replies,
                   got, auxVars>>

\* The server handles one of the requests it has and sends the reply.
ServerHandle ==
    /\ \E r \in requests :
         /\ requests' = requests \ {r}
         /\ replies' = Append(replies, Reply(r))
    /\ UNCHANGED <<procVars, supVars, outstanding, got, auxVars>>

\* The calling process resumes from awaiting the reply to request r.
AwaitReply ==
    /\ Idle
    /\ \E r \in outstanding :
         /\ \E k \in 1..Len(replies) : replies[k].tag = r.tag
         /\ LET i == FirstTagged(replies, r.tag) IN
              /\ got' = got \cup {[request |-> r, reply |-> replies[i]]}
              /\ replies' = RemoveAt(replies, i)
         /\ outstanding' = outstanding \ {r}
    /\ UNCHANGED <<procVars, supVars, requests, auxVars>>

NextServer ==
    \/ NewTag
    \/ SendRequest
    \/ ServerHandle
    \/ AwaitReply

SpecServer == Init /\ [][NextServer]_vars

\* C10: with requests outstanding under distinct tags, the caller of each
\* takes exactly the reply that carries its own tag, which is the reply to
\* its own request, whatever the order the replies arrived in.
C10_ReplyMatchesRequest ==
    /\ \A g \in got :
         /\ g.reply.tag = g.request.tag
         /\ g.reply = Reply(g.request)
    /\ \A g, h \in got : g.request # h.request => g.reply # h.reply

\* Two requests were outstanding together, the replies arrived in the other
\* order, and the caller of the first one took its own reply.
C10_Witness ==
    \E g \in got : \E r \in outstanding :
        /\ g.request.tag # r.tag
        /\ Lt64(g.request.tag.id, r.tag.id)
        /\ replies # <<>>
        /\ replies[1] = Reply(r)
        /\ g.reply.tag = g.request.tag

\* ------------------------------------------------------------------ sleep
\* (mod.rs:117-119: host_api::process::sleep_ms(duration.as_millis() as u64))

\* A u64 is four 16-bit limbs, a u128 below 2^80 five, most significant first.
U64(n) == <<0, 0, 0, n>>
U64Max == <<Base - 1, Base - 1, Base - 1, Base - 1>>

\* std::time::Duration: whole seconds (u64) and nanoseconds below 10^9.
Duration(secs, nanos) == [secs |-> secs, nanos |-> nanos]

\* Duration::as_millis: secs * 1000 + nanos / 1_000_000, as a u128.
as_millis(d) ==
    LET p4 == d.secs[4] * 1000 + (d.nanos \div 1000000)
        p3 == d.secs[3] * 1000 + (p4 \div Base)
        p2 == d.secs[2] * 1000 + (p3 \div Base)
        p1 == d.secs[1] * 1000 + (p2 \div Base)
    IN  <<p1 \div Base, p1 % Base, p2 % Base, p3 % Base, p4 % Base>>

\* `x as u64` of a u128: the low 64 bits.
as_u64(x) == <<x[2], x[3], x[4], x[5]>>

\* The milliseconds sleep(duration) asks the host for.
sleep(duration) == as_u64(as_millis(duration))

\* The seconds and nanoseconds the process sleeps for.
SleepSecs ==
    { U64(0), U64(1), U64(2), U64(3600), <<0, 0, 481, 13184>>,
      <<0, 1, 0, 0>>, <<65, 35127, 19398, 42991>>, <<65, 35127, 19398, 42992>>,
      <<1, 0, 0, 0>>, <<HalfBase, 0, 0, 0>>, U64Max }

SleepNanos ==
    { 0, 1, 999999, 1000000, 1000001, 1500000, 2000000, 123456789,
      999000000, 999999999 }

InitSleep == Init

\* The process calls sleep(duration).
Sleep ==
    /\ \E secs \in SleepSecs, nanos \in SleepNanos :
         slept' = [duration |-> Duration(secs, nanos),
                   ms |-> sleep(Duration(secs, nanos))]
    /\ UNCHANGED <<procVars, supVars, srvVars, peer, built, threads>>

NextSleep == Sleep

SpecSleep == InitSleep /\ [][NextSleep]_vars

\* a < b for unsigned numbers of the same number of limbs.
LtLimbs(a, b) ==
    \E i \in 1..Len(a) :
        /\ a[i] < b[i]
        /\ \A j \in 1..(i - 1) : a[j] = b[j]

\* ms milliseconds are not shorter than the duration d: ms is at least the
\* whole milliseconds of d, and more when d has a part of a millisecond.
NotShorter(ms, d) ==
    LET asked == <<0>> \o ms
        whole == as_millis(d)
    IN  IF d.nanos % 1000000 = 0 THEN ~LtLimbs(asked, whole)
        ELSE LtLimbs(whole, asked)

\* C11: the milliseconds sleep(duration) asks the host for are never shorter
\* than the duration passed in.
C11_SleepNotShorter ==
    slept # None => NotShorter(slept.ms, slept.duration)

\* ============================================ Tag::new at the end of the range

\* Counter values a long-lived process reaches: i64::MAX and the few below it.
HighCounters ==
    { <<HalfBase - 1, Base - 1, Base - 1, Base - 1 - k>> : k \in 0..MaxTags }

\* A process that has made close to 2^63 generating calls.  `returned`,
\* `lastGen` and `ngen` record the calls made from here on.
InitHigh ==
    /\ COUNTER \in HighCounters
    /\ panicked = FALSE
    /\ returned = <<>>
    /\ lastGen = None
    /\ reads = None
    /\ call = NoCall
    /\ ncalls = 0
    /\ children = <<>>
    /\ mailbox = {}
    /\ sup = <<>>
    /\ requests = {}
    /\ replies = <<>>
    /\ outstanding = {}
    /\ got = {}
    /\ ngen = 0
    /\ AuxInit

NextHigh ==
    \/ NewTag
    \/ DefaultTag
    \/ ReadId

SpecHigh == InitHigh /\ [][NextHigh]_vars

\* C12: Tag::new cannot fail: from every counter value, i64::MAX included, a
\* call returns a tag (the process does not abort), and the tag differs from
\* every tag returned before it.
C12_NewCannotFail ==
    /\ ~panicked
    /\ \A i, j \in 1..Len(returned) : i # j => returned[i] # returned[j]

\* ======================================== more properties of the entry points

\* C13: a trap of a process spawned with a link is never swallowed: the
\* process linked to it has the failure notification, carrying the tag the
\* link was made with; a trap of a process spawned by spawn / spawn_config
\* produces no notification to the spawner.
C13_TrapNotifiesLinkedOnly ==
    \A p \in 1..Len(children) :
        /\ (children[p].byLinkEntry /\ children[p].state = "trapped") =>
             \E n \in mailbox :
                 /\ n = Notification(children[p].link, p, "Trapped")
                 /\ n.tag \in Range(returned)
        /\ ~children[p].byLinkEntry =>
             /\ children[p].link = NoTag
             /\ \A n \in mailbox : n.pid # p

\* A linked child and an unlinked child have both trapped: the caller has
\* the notification of the first and none of the second.
C13_Witness ==
    \E p, q \in 1..Len(children) :
        /\ children[p].byLinkEntry
        /\ children[p].state = "trapped"
        /\ Notification(children[p].link, p, "Trapped") \in mailbox
        /\ ~children[q].byLinkEntry
        /\ children[q].state = "trapped"
        /\ \A n \in mailbox : n.pid # q

\* The entry points that spawn without a link.
PlainEntry(entry) == entry \in {"spawn", "spawn_config"}

\* C16: spawn and spawn_config never generate a tag: no step of such a call,
\* from its entry to its return with success or failure, changes the counter
\* or the tags returned, so the next Tag::new returns what it would have
\* returned without the call.
C16_SpawnKeepsCounter ==
    [][ (call' # call /\ PlainEntry(call'.entry)) =>
            /\ COUNTER' = COUNTER
            /\ returned' = returned
            /\ lastGen' = lastGen
            /\ Tag_new(COUNTER') = Tag_new(COUNTER) ]_vars

\* spawn_config failed and has returned, in a process that has issued tags.
C16_Witness ==
    /\ call.entry = "spawn_config"
    /\ call.stage = "idle"
    /\ call.ret = Err("SpawnFailed")
    /\ Len(returned) >= 1
    /\ COUNTER = I64(Len(returned))

\* C17: a failed spawn_link or spawn_link_config still consumes its tag: the
\* tag was generated before the contract was invoked, the counter is one
\* higher than before the call, and no later Tag::new returns that tag.
C17_FailedLinkConsumesTag ==
    (LinkEntry(call.entry) /\ call.stage = "idle" /\ ~call.ret.ok) =>
        LET tag == call.invocation.tag IN
        /\ Cardinality({ k \in 1..Len(returned) : returned[k] = tag }) = 1
        /\ ~Lt64(COUNTER, Tag_id(tag))
        /\ (lastGen.op = call.entry /\ lastGen.tag = tag) =>
             /\ COUNTER = WrappingInc(lastGen.before)
             /\ Tag_id(tag) = COUNTER

\* spawn_link failed, and Tag::new was called after it.
C17_Witness ==
    /\ call.entry = "spawn_link"
    /\ call.stage = "idle"
    /\ call.ret = Err("SpawnFailed")
    /\ lastGen.op = "new"
    /\ Lt64(Tag_id(call.invocation.tag), COUNTER)

\* C18: below the 64-bit limit the counter equals the number of Tag::new,
\* Tag::default, spawn_link and spawn_link_config calls made so far and the
\* largest tag id issued so far; it never decreases and every issued id is
\* at least 1.
C18_CounterCountsCalls ==
    /\ COUNTER = I64(ngen)
    /\ Len(returned) = ngen
    /\ \A k \in 1..Len(returned) :
         /\ ~Lt64(COUNTER, Tag_id(returned[k]))
         /\ Lt64(I64(0), Tag_id(returned[k]))
    /\ ngen > 0 => \E k \in 1..Len(returned) : Tag_id(returned[k]) = COUNTER
    /\ lastGen # None => Lt64(lastGen.before, lastGen.after)

\* Four generating calls have been made: the latest entry point called is
\* spawn_link_config and the latest generating call is Tag::default.
C18_Witness ==
    /\ ngen = 4
    /\ call.entry = "spawn_link_config"
    /\ lastGen.op = "default"
    /\ \E k \in 1..Len(returned) : Tag_id(returned[k]) = I64(4)

\* ================================== Tag::new called by two logical threads
\* COUNTER is a plain `static mut`: `COUNTER += 1` is a load, an addition and
\* a store, and `Tag(COUNTER)` is another load.  Nothing orders the steps of
\* two threads, so every interleaving of them is an outcome.

Threads == {1, 2}

\* The calls of Tag::new begun so far, by both threads.
Begun(t) == Len(threads[t].got) + (IF threads[t].pc = "out" THEN 0 ELSE 1)

\* Thread t moves on inside Tag::new; nothing but the counter, the threads
\* and the record of the tags returned is touched.
ThreadStep(t, pc, reg, tags) ==
    /\ threads' = [threads EXCEPT ![t] = [pc |-> pc, reg |-> reg, got |-> tags]]
    /\ UNCHANGED <<panicked, lastGen, reads, call, ncalls, children, mailbox>>
    /\ UNCHANGED <<supVars, srvVars, slept, peer, built>>

\* A thread calls Tag::new.
TCall ==
    \E t \in Threads :
        /\ threads[t].pc = "out"
        /\ Begun(1) + Begun(2) < MaxTags
        /\ ThreadStep(t, "load", threads[t].reg, threads[t].got)
        /\ ngen' = ngen + 1
        /\ UNCHANGED <<COUNTER, returned>>

\* COUNTER += 1, first part: load COUNTER.
TRead ==
    \E t \in Threads :
        /\ threads[t].pc = "load"
        /\ ThreadStep(t, "add", COUNTER, threads[t].got)
        /\ UNCHANGED <<COUNTER, returned, ngen>>

\* COUNTER += 1, second part: add 1.
TAdd ==
    \E t \in Threads :
        /\ threads[t].pc = "add"
        /\ ThreadStep(t, "store", WrappingInc(threads[t].reg), threads[t].got)
        /\ UNCHANGED <<COUNTER, returned, ngen>>

\* COUNTER += 1, third part: store the sum.
TWrite ==
    \E t \in Threads :
        /\ threads[t].pc = "store"
        /\ COUNTER' = threads[t].reg
        /\ ThreadStep(t, "tag", threads[t].reg, threads[t].got)
        /\ UNCHANGED <<returned, ngen>>

\* Tag(COUNTER): load COUNTER again and return the tag.
TReturn ==
    \E t \in Threads :
        /\ threads[t].pc = "tag"
        /\ ThreadStep(t, "out", threads[t].reg,
                      Append(threads[t].got, Tag(COUNTER)))
        /\ returned' = Append(returned, Tag(COUNTER))
        /\ UNCHANGED <<COUNTER, ngen>>

NextThreads ==
    \/ TCall
    \/ TRead
    \/ TAdd
    \/ TWrite
    \/ TReturn

InitThreads == Init

SpecThreads == InitThreads /\ [][NextThreads]_vars

\* The tags the two threads got from Tag::new, each with who got it and when.
Got == { x \in Threads \X (1..MaxTags) : x[2] <= Len(threads[x[1]].got) }

\* C14: Tag::new returns a unique tag inside of the process even when two
\* logical threads call it concurrently: in no interleaving of the loads,
\* additions and stores do two calls return the same tag.
C14_UniqueAcrossThreads ==
    \A x, y \in Got :
        x # y => threads[x[1]].got[x[2]] # threads[y[1]].got[y[2]]

\* ============================================== the counter of another process
\* COUNTER is a `static`: one location in the memory of each running
\* instance of the program, set to 0 when the instance starts.  A process is
\* one instance.

Processes == {"caller", "peer"}

\* A faulty variant of CounterOf: every process uses the caller's location.
CounterOf_shared(p) == "caller"

\* The process in whose memory the COUNTER that process p reads and writes is.
CounterOf(p) == p

\* The value of the COUNTER of process p.
Cell(p) == IF p = "caller" THEN COUNTER ELSE peer.COUNTER

\* The other process runs a generating call whose outcomes are outs; the
\* tag it gets is recorded with the tags it got before.
PeerGenerate(outs) ==
    /\ Len(peer.returned) < MaxTags
    /\ \E g \in { x \in outs : ~x.panic } :
         IF CounterOf("peer") = "peer"
           THEN /\ peer' = [COUNTER  |-> g.counter,
                            returned |-> Append(peer.returned, g.tag)]
                /\ UNCHANGED COUNTER
           ELSE /\ peer' = [peer EXCEPT !.returned = Append(@, g.tag)]
                /\ COUNTER' = g.counter
    /\ UNCHANGED <<panicked, returned, lastGen, reads, call, ncalls, children,
                   mailbox, ngen>>
    /\ UNCHANGED <<supVars, srvVars, slept, built, threads>>

\* Tag::new in the other process.
PeerNewTag == PeerGenerate(Tag_new(Cell(CounterOf("peer"))))

\* spawn_link in the other process: the tag it generates.
PeerSpawnLink ==
    \E in \in Inputs :
        PeerGenerate({ [panic |-> o.panic, counter |-> o.counter,
                        tag |-> o.invocation.tag]
                       : o \in spawn_link(Cell(CounterOf("peer")), in.capture,
                                          in.handler) })

\* The other process ends and is started again: a fresh instance, whose
\* COUNTER is 0.  The tags its earlier run returned stay on record.
PeerRestart ==
    /\ peer.COUNTER # I64(0)
    /\ peer' = [peer EXCEPT !.COUNTER = NoPeer.COUNTER]
    /\ UNCHANGED <<procVars, supVars, srvVars, slept, built, threads>>

InitPeers == Init

NextPeers ==
    \/ NewTag
    \/ DefaultTag
    \/ SpawnLink
    \/ SpawnLinkConfig
    \/ HostRefuse
    \/ HostCreate
    \/ HostLink
    \/ Return
    \/ PeerNewTag
    \/ PeerSpawnLink
    \/ PeerRestart

SpecPeers == InitPeers /\ [][NextPeers]_vars

\* C15: the tag counter is confined to one process: a generating call in one
\* process never changes the counter of the other, and each process's
\* counter moves by its own calls only, so two processes, and two runs of a
\* restarted process, can return equal tags.
C15_CounterConfined ==
    [][ /\ (returned' # returned \/ call' # call) => peer' = peer
        /\ peer' # peer => /\ COUNTER' = COUNTER
                           /\ returned' = returned
        /\ peer.returned' # peer.returned =>
             /\ peer.COUNTER' = WrappingInc(peer.COUNTER)
             /\ peer.returned' = Append(peer.returned, Tag(peer.COUNTER')) ]_vars

\* Both processes hold the tag with id 2, and the other process, started
\* again, has returned the tag with id 1 in both of its runs.
C15_Witness ==
    /\ Tag(I64(2)) \in Range(returned) \cap Range(peer.returned)
    /\ \E i, j \in 1..Len(peer.returned) :
         /\ i < j
         /\ peer.returned[i] = Tag(I64(1))
         /\ peer.returned[j] = Tag(I64(1))

\* ======================================================= Tag::from and Tag::id

\* The integers Tag::from is called with: small ones, negative ones, the
\* ends of the i64 range and values that use every limb.
FromIds ==
    { I64(0), I64(1), I64(2), I64(3), I64Max, I64Min,
      <<Base - 1, Base - 1, Base - 1, Base - 1>>,
      <<1, 2, 3, 4>>, <<HalfBase + 1, 0, Base - 1, 2>> }

\* Tag::from(id), then id() on the tag built.  `at` is the counter at the
\* time of the call.
FromTag ==
    /\ Idle
    /\ Cardinality(built) <= MaxCalls
    /\ \E id \in FromIds :
         built' = built \cup { [id   |-> id,
                                tag  |-> Tag_from(id),
                                read |-> Tag_id(Tag_from(id)),
                                at   |-> COUNTER] }
    /\ UNCHANGED <<procVars, supVars, srvVars, slept, peer, threads>>

InitFrom == Init

NextFrom ==
    \/ FromTag
    \/ NewTag
    \/ DefaultTag

SpecFrom == InitFrom /\ [][NextFrom]_vars

\* C19: Tag::from(id) followed by id() returns id for every i64, and
\* Tag::from does not read or change the counter: the counter still counts
\* the generating calls alone, and the tag built is the tag of that id
\* whatever the counter was.
C19_FromIdRoundTrip ==
    /\ \A b \in built :
         /\ b.read = b.id
         /\ b.tag = Tag(b.id)
    /\ COUNTER = I64(ngen)
    /\ \A k \in 1..Len(returned) : Tag_id(returned[k]) = I64(k)

\* A tag built with Tag::from equals a tag Tag::new issued after it, another
\* equals a tag issued before it, and i64::MIN has gone through from and id.
C19_Witness ==
    /\ \E b \in built : b.tag \in Range(returned) /\ Lt64(b.at, b.id)
    /\ \E b \in built : b.tag \in Range(returned) /\ ~Lt64(b.at, b.id)
    /\ \E b \in built : b.id = I64Min /\ b.read = I64Min

====
